---- MODULE Spec2Model ----
(***************************************************************************)
(* Warehouse stock engine: ProductService over ProductRepository and       *)
(* UnitRepository (MongoDB collections).  Every repository call is one     *)
(* atomic step against the store; a service method is the sequence of its  *)
(* repository calls, so that two requests may interleave between them.     *)
(* Floats (volume, prices, unit_gain) are modelled by integers.            *)
(***************************************************************************)
EXTENDS Integers, Sequences, FiniteSets, TLC

VARIABLES
  unit_collection,     \* db["units"]: the documents, in insertion order
  product_collection,  \* db["products"]: the documents, in insertion order
  seeded,              \* history: the product collection at startup
  uuid_count,          \* number of ids uuid4 has returned
  pc,                  \* per handler: the repository call it is about to make
  loc,                 \* per handler: its request and local variables
  res,                 \* per handler: what its last request returned or raised
  ops,                 \* number of requests begun
  user_collection,     \* db["users"]: the documents, in insertion order
  session              \* per client: the contents of its Flask session

vars == <<unit_collection, product_collection, seeded, uuid_count, pc, loc, res, ops,
          user_collection, session>>

\* ---------------------------------------------------------------- bounds
\* requests begun in one behaviour
MaxOps == 2
\* documents in the product collection
MaxDocs == 2
\* ids drawn from uuid4
MaxUuid == 2
\* largest quantity argument of a request
MaxQty == 2

\* concurrent request handlers
Procs == {1, 2}

\* ---------------------------------------------------------------- values
None == "None"

UnitIds == {"u1", "u2"}
UnitArgs == UnitIds \cup {"u0"}
ProductIds == {"p1", "p2"}
UuidPool == <<"uuid-1", "uuid-2", "uuid-3", "uuid-4">>

\* quantity arguments: negative, zero and positive
QtyArgs == (-1)..MaxQty

\* the attributes that Product.from_dict requires of an insert request
\* (unit_id, the twelfth, is the argument that selects the insertion path)
RequiredFields ==
  {"name", "quantity", "sold_quantity", "weight", "volume", "category",
   "purchase_price", "selling_price", "manufacturer", "unit_gain"}

\* the attributes that _insert_product_to_all_units reads from its arguments
DefinitionFields == RequiredFields \ {"quantity", "sold_quantity", "unit_gain"}

\* the arguments of a request that are None: none, or one required field.
\* The request keeps a value of the right type under a field that is None;
\* the handlers read nulls before they read the value.
NullArgs == {{}} \cup {{f} : f \in RequiredFields}

\* uuid.uuid4(): a value no earlier call returned
uuid4(n) == UuidPool[n + 1]

\* ---------------------------------------------------------------- Product
Product(id, name, quantity, sold_quantity, weight, volume, category, purchase_price, selling_price, manufacturer, unit_gain, unit_id) ==
  [id |-> id, name |-> name, quantity |-> quantity,
   sold_quantity |-> sold_quantity, weight |-> weight, volume |-> volume,
   category |-> category, purchase_price |-> purchase_price,
   selling_price |-> selling_price, manufacturer |-> manufacturer,
   unit_gain |-> unit_gain, unit_id |-> unit_id]

\* mutant: the cost of a purchase with the sign of a gain
calculate_loss_unsigned(product, quantity) == product.purchase_price * quantity

calculate_loss(product, quantity) == - product.purchase_price * quantity

\* mutant: the gain of Product.sell_product, the price without the cost
calculate_profit_price_only(product, quantity) ==
  product.selling_price * quantity

calculate_profit(product, quantity) ==
  (product.selling_price - product.purchase_price) * quantity

\* mutant: from_dict with the two prices taken from each other's key
from_dict_prices_crossed(data) ==
  Product(data.id, data.name, data.quantity, data.sold_quantity, data.weight, data.volume, data.category, data.selling_price, data.purchase_price, data.manufacturer, data.unit_gain, data.unit_id)

\* Product.from_dict of a stored document: the Product built from its
\* twelve keys (a stored document has an id and no None attribute)
from_dict(data) ==
  Product(data.id, data.name, data.quantity, data.sold_quantity, data.weight, data.volume, data.category, data.purchase_price, data.selling_price, data.manufacturer, data.unit_gain, data.unit_id)

\* ---------------------------------------------------------------- store
\* find_one: the index of the first document among those at the indices in
\* matches, 0 when none matches
FirstIndex(matches) ==
  IF matches = {} THEN 0 ELSE CHOOSE i \in matches : \A j \in matches : i <= j

RECURSIVE SumSeq(_)
SumSeq(s) == IF s = <<>> THEN 0 ELSE Head(s) + SumSeq(Tail(s))

\* UnitRepository.get_unit_by_id: <<unit>> or <<>> for None
get_unit_by_id(units, id) ==
  LET i == FirstIndex({k \in 1..Len(units) : units[k].id = id})
  IN IF i = 0 THEN <<>> ELSE <<units[i]>>

get_all_units_ids(units) == [i \in 1..Len(units) |-> units[i].id]

\* ProductRepository.get_product_by_id: <<product>> or <<>> for None
get_product_by_id(coll, id, unit_id) ==
  LET i == FirstIndex({k \in 1..Len(coll) :
                         /\ coll[k].id = id
                         /\ (unit_id # None => coll[k].unit_id = unit_id)})
  IN IF i = 0 THEN <<>> ELSE <<coll[i]>>

get_quantity_and_volume_by_unit(coll, unit_id) ==
  LET M(d) == d.unit_id = unit_id
      found == SelectSeq(coll, M)
  IN [i \in 1..Len(found) |->
        [id |-> found[i].id, quantity |-> found[i].quantity,
         volume |-> found[i].volume]]


\* the product names of the requests, in the order in which a sort on
\* "name" compares them
NameOrder == <<"pr1", "pr2">>

name_rank(name) == CHOOSE i \in 1..Len(NameOrder) : NameOrder[i] = name

\* the value that a sort on order_field compares
sort_key(d, order_field) ==
  IF order_field = "quantity" THEN d.quantity ELSE name_rank(d.name)

\* mutant: the range of the query excludes its bounds
search_query_exclusive(d, name, id, min_quantity, max_quantity, unit_id) ==
  /\ name # None => d.name = name
  /\ id # None => d.id = id
  /\ unit_id # None => d.unit_id = unit_id
  /\ (min_quantity # <<>> /\ max_quantity # <<>>) =>
       (d.quantity > min_quantity[1] /\ d.quantity < max_quantity[1])

\* the query of ProductRepository.search_products; an optional bound is
\* <<>> for None and <<n>> for n
search_query(d, name, id, min_quantity, max_quantity, unit_id) ==
  /\ name # None => d.name = name
  /\ id # None => d.id = id
  /\ unit_id # None => d.unit_id = unit_id
  /\ (min_quantity # <<>> /\ max_quantity # <<>>) =>
       (d.quantity >= min_quantity[1] /\ d.quantity <= max_quantity[1])

\* mutant: the sort is ascending whatever order_type is
sorted_ascending_only(s, order_field, order_type) ==
  \A i \in 1..(Len(s) - 1) :
    sort_key(s[i], order_field) <= sort_key(s[i + 1], order_field)

\* cursor.sort(order_field, DESCENDING or ASCENDING): s is in that order
sorted(s, order_field, order_type) ==
  \A i \in 1..(Len(s) - 1) :
    IF order_type = "descending"
      THEN sort_key(s[i], order_field) >= sort_key(s[i + 1], order_field)
      ELSE sort_key(s[i], order_field) <= sort_key(s[i + 1], order_field)

\* the lists that hold the documents of s in some order
arrangements(s) ==
  {[i \in 1..Len(s) |-> s[f[i]]] : f \in Permutations(1..Len(s))}

\* ProductRepository.search_products: the lists that the cursor may yield.
\* find yields the matching documents as stored; sort leaves the order of
\* documents with equal keys open.
search_products(coll, order_field, order_type, name, id, min_quantity, max_quantity, unit_id) ==
  LET M(d) == search_query(d, name, id, min_quantity, max_quantity, unit_id)
      found == SelectSeq(coll, M)
      cursor == IF order_field = None
                  THEN {found}
                  ELSE {s \in arrangements(found) : sorted(s, order_field, order_type)}
  IN {[i \in 1..Len(s) |-> from_dict(s[i])] : s \in cursor}

\* ---------------------------------------------------------------- ProductService
used_space(coll, unit_id) ==
  LET products == get_quantity_and_volume_by_unit(coll, unit_id)
  IN SumSeq([i \in 1..Len(products) |->
               products[i].quantity * products[i].volume])

\* mutant: the records already stored in the unit are not subtracted
free_space_of_empty_unit(unit, coll) == unit.volume

free_space(unit, coll) == unit.volume - used_space(coll, unit.id)

\* mutant: the comparison of the capacity check is reversed
does_product_fit_in_unit_reversed(unit, coll, product_quantity, product_volume) ==
  free_space(unit, coll) <= product_quantity * product_volume

\* mutant: a product that fills the free space exactly does not fit
does_product_fit_in_unit_strict(unit, coll, product_quantity, product_volume) ==
  free_space(unit, coll) > product_quantity * product_volume

\* _does_product_fit_in_unit, once the unit is found
does_product_fit_in_unit(unit, coll, product_quantity, product_volume) ==
  free_space(unit, coll) >= product_quantity * product_volume

\* ---------------------------------------------------------------- ProductRepository updates
\* mutant: the filter asks for stock, not for enough stock
sell_filter_any_stock(d, product_id, unit_id, sell_quantity) ==
  /\ d.id = product_id
  /\ d.quantity >= 0
  /\ (unit_id # None => d.unit_id = unit_id)

\* mutant: the filter carries no quantity guard
sell_filter_unguarded(d, product_id, unit_id, sell_quantity) ==
  /\ d.id = product_id
  /\ (unit_id # None => d.unit_id = unit_id)

\* the filter of _sell_product
sell_filter(d, product_id, unit_id, sell_quantity) ==
  /\ d.id = product_id
  /\ d.quantity >= sell_quantity
  /\ (unit_id # None => d.unit_id = unit_id)

\* mutant: the update credits the gain and leaves the quantity
sell_update_gain_only(d, sell_quantity, profit) ==
  [d EXCEPT !.unit_gain = @ + profit]

\* the $inc update of _sell_product
sell_update(d, sell_quantity, profit) ==
  [d EXCEPT !.quantity = @ - sell_quantity, !.unit_gain = @ + profit]

\* mutant: the update of a purchase adds the quantity twice
buy_update_doubled(d, quantity, unit_gain) ==
  [d EXCEPT !.quantity = @ + 2 * quantity, !.unit_gain = @ + unit_gain]

\* mutant: the update of a purchase also writes the name
buy_update_renaming(d, quantity, unit_gain) ==
  [d EXCEPT !.quantity = @ + quantity, !.unit_gain = @ + unit_gain,
            !.name = "pr2"]

\* the $inc update of buy_product
buy_update(d, quantity, unit_gain) ==
  [d EXCEPT !.quantity = @ + quantity, !.unit_gain = @ + unit_gain]

\* mutant: a product collection without the unique index
DuplicateKey_unindexed(coll, doc) == FALSE

\* the unique index on "id" of the product collection
DuplicateKey(coll, doc) == \E i \in 1..Len(coll) : coll[i].id = doc.id

\* ---------------------------------------------------------------- users
\* a document of the user collection, as User.to_percistance_dict writes it
User(id, name, username, password, unit_id, role) ==
  [id |-> id, name |-> name, username |-> username, password |-> password,
   unit_id |-> unit_id, role |-> role]

\* an employee: the role is "employee" unless one is given
Employee(id, name, username, password, unit_id) ==
  User(id, name, username, password, unit_id, "employee")

\* an admin has no name and the empty string for its unit
Admin(id, username, password) == User(id, "", username, password, "", "admin")

\* the users of populatedb, two employees and one supervisor, and the admin
\* that create_server inserts
Users == <<Employee("e1", "John", "js", "12", "u1"),
           Employee("e2", "Jim", "jh", "12", "u2"),
           User("s1", "Bruce", "bw", "12", "u1", "supervisor"),
           Admin("a1", "admin", "admin123")>>

hierarchy == <<"employee", "supervisor", "admin">>

\* list.index: the position of a role in the hierarchy, 0 where Python
\* raises ValueError
index(role) ==
  FirstIndex({i \in 1..Len(hierarchy) : hierarchy[i] = role})

\* a session; a key that the session does not hold reads None
Session(user_id, unit_id, role) ==
  [user_id |-> user_id, unit_id |-> unit_id, role |-> role]

NoSession == Session(None, None, None)

\* login_required: the wrapped view runs when the session holds a user_id
login_required(s, wrapped) ==
  IF s.user_id = None THEN "redirect_login" ELSE wrapped

\* mutant: required_role without the comparison of the positions
required_role_of_any(s, min_role) ==
  IF s.role = None
    THEN "redirect_login"
    ELSE IF index(s.role) = 0 \/ index(min_role) = 0
      THEN "ValueError"
      ELSE "view"

\* required_role(min_role) around a view: what the request gets
required_role(s, min_role) ==
  IF s.role = None
    THEN "redirect_login"
    ELSE IF index(s.role) = 0 \/ index(min_role) = 0
      THEN "ValueError"
      ELSE IF index(s.role) < index(min_role)
        THEN "redirect_missing_permissions"
        ELSE "view"

\* UserRepository.get_user: the first document with the credentials, in
\* the unit when one is given
find_user(coll, username, password, unit_id) ==
  FirstIndex({i \in 1..Len(coll) :
                /\ coll[i].username = username
                /\ coll[i].password = password
                /\ (unit_id # None => coll[i].unit_id = unit_id)})

\* UserService.get_user: the user with the credentials, the unit that
\* was submitted, and the subclass of the role
get_user(users, units, username, password, unit_id) ==
  LET i == find_user(users, username, password, unit_id)
  IN IF i = 0
       THEN [outcome |-> "UserNotFoundByCredentialsError", user |-> <<>>]
       ELSE IF unit_id # None /\ get_unit_by_id(units, unit_id) = <<>>
         THEN [outcome |-> "UnitNotFoundByIdError", user |-> <<>>]
         ELSE IF index(users[i].role) = 0
           THEN [outcome |-> "ValueError", user |-> <<>>]
           ELSE [outcome |-> "ok", user |-> <<users[i]>>]

\* DeleteResult.acknowledged: true for every write of a client with the
\* default write concern, whatever the number of documents deleted
acknowledged == TRUE

\* the filter of EmployeeRepository.delete_employee_by_id
delete_filter(d, employee_id, unit_id) ==
  /\ d.id = employee_id
  /\ d.role = "employee"
  /\ (unit_id # None => d.unit_id = unit_id)

\* delete_one: the collection without its i-th document
delete_one(coll, i) ==
  IF i = 0 THEN coll ELSE SubSeq(coll, 1, i - 1) \o SubSeq(coll, i + 1, Len(coll))

\* ---------------------------------------------------------------- handlers
Idle == [op |-> "idle"]
NoResponse == [op |-> "none"]

\* seq numbers the requests in the order they began
Response(seq, op, request, outcome, product) ==
  [seq |-> seq, op |-> op, request |-> request, outcome |-> outcome,
   product |-> product]

\* the handler of p returns or raises: its response is recorded
Reply(p, op, request, outcome, product) ==
  /\ pc' = [pc EXCEPT ![p] = "idle"]
  /\ loc' = [loc EXCEPT ![p] = Idle]
  /\ res' = [res EXCEPT ![p] =
               Response(IF pc[p] = "idle" THEN ops + 1 ELSE loc[p].seq,
                        op, request, outcome, product)]

\* a method of ProductService returns or raises; none of them reads or
\* writes the user collection or a session
Return(p, op, request, outcome, product) ==
  /\ Reply(p, op, request, outcome, product)
  /\ UNCHANGED <<user_collection, session>>

\* the handler of p goes on to its next repository call
Goto(p, label, locals) ==
  /\ pc' = [pc EXCEPT ![p] = label]
  /\ loc' = [loc EXCEPT ![p] =
               [seq |-> IF pc[p] = "idle" THEN ops + 1 ELSE loc[p].seq] @@ locals]
  /\ res' = [res EXCEPT ![p] = NoResponse]
  /\ UNCHANGED <<user_collection, session>>

Begin(p) ==
  /\ pc[p] = "idle"
  /\ ops < MaxOps
  /\ ops' = ops + 1

\* mutant: sell_product without its check of the sign of quantity_to_sell
SellBegin_unsigned(p, product_id, quantity_to_sell, unit_id) ==
  LET request == [product_id |-> product_id,
                  quantity_to_sell |-> quantity_to_sell, unit_id |-> unit_id]
      product == get_product_by_id(product_collection, product_id, None)
  IN /\ Begin(p)
     /\ IF product = <<>>
          THEN Return(p, "sell", request, "ProductNotFoundByIdError", <<>>)
          ELSE Goto(p, "sell_update",
                    [op |-> "sell", request |-> request,
                     profit |-> calculate_profit(product[1], quantity_to_sell)])
     /\ UNCHANGED <<unit_collection, product_collection, seeded, uuid_count>>

\* mutant: the profit of a sale computed from the first record of the
\* collection instead of the record found by the product id
SellBegin_first_record(p, product_id, quantity_to_sell, unit_id) ==
  LET request == [product_id |-> product_id,
                  quantity_to_sell |-> quantity_to_sell, unit_id |-> unit_id]
      product == get_product_by_id(product_collection, product_id, None)
  IN /\ Begin(p)
     /\ IF product = <<>>
          THEN Return(p, "sell", request, "ProductNotFoundByIdError", <<>>)
          ELSE IF quantity_to_sell < 0
            THEN Return(p, "sell", request, "InsufficientProductQuantity", <<>>)
            ELSE Goto(p, "sell_update",
                      [op |-> "sell", request |-> request,
                       profit |-> calculate_profit(product_collection[1], quantity_to_sell)])
     /\ UNCHANGED <<unit_collection, product_collection, seeded, uuid_count>>

\* ProductService.sell_product up to its repository update
SellBegin(p, product_id, quantity_to_sell, unit_id) ==
  LET request == [product_id |-> product_id,
                  quantity_to_sell |-> quantity_to_sell, unit_id |-> unit_id]
      product == get_product_by_id(product_collection, product_id, None)
  IN /\ Begin(p)
     /\ IF product = <<>>
          THEN Return(p, "sell", request, "ProductNotFoundByIdError", <<>>)
          ELSE IF quantity_to_sell < 0
            THEN Return(p, "sell", request, "InsufficientProductQuantity", <<>>)
            ELSE Goto(p, "sell_update",
                      [op |-> "sell", request |-> request,
                       profit |-> calculate_profit(product[1], quantity_to_sell)])
     /\ UNCHANGED <<unit_collection, product_collection, seeded, uuid_count>>

\* ProductRepository._sell_product and the rest of sell_product
SellUpdate(p) ==
  LET r == loc[p].request
      i == FirstIndex({k \in 1..Len(product_collection) :
                         sell_filter(product_collection[k], r.product_id, r.unit_id, r.quantity_to_sell)})
      updated == sell_update(product_collection[i], r.quantity_to_sell, loc[p].profit)
  IN /\ pc[p] = "sell_update"
     /\ IF i = 0
          THEN /\ Return(p, "sell", r, "InsufficientProductQuantity", <<>>)
               /\ UNCHANGED product_collection
          ELSE /\ product_collection' = [product_collection EXCEPT ![i] = updated]
               /\ Return(p, "sell", r, "ok", <<updated>>)
     /\ UNCHANGED <<unit_collection, seeded, uuid_count, ops>>

\* ProductService.buy_product: the lookup of the product
BuyBegin(p, product_id, purchased_quantity) ==
  LET request == [product_id |-> product_id,
                  purchased_quantity |-> purchased_quantity]
      product == get_product_by_id(product_collection, product_id, None)
  IN /\ Begin(p)
     /\ IF product = <<>>
          THEN Return(p, "buy", request, "ProductNotFoundByIdError", <<>>)
          ELSE Goto(p, "buy_fit",
                    [op |-> "buy", request |-> request, product |-> product[1]])
     /\ UNCHANGED <<unit_collection, product_collection, seeded, uuid_count>>

\* mutant: buy_product without its capacity check
BuyFit_unchecked(p) ==
  LET r == loc[p].request
      product == loc[p].product
      unit == get_unit_by_id(unit_collection, product.unit_id)
  IN /\ pc[p] = "buy_fit"
     /\ IF unit = <<>>
          THEN Return(p, "buy", r, "UnitNotFoundByIdError", <<>>)
          ELSE Goto(p, "buy_update",
                    [op |-> "buy", request |-> r,
                     unit_id |-> product.unit_id,
                     used_space |-> used_space(product_collection, product.unit_id),
                     loss |-> calculate_loss(product, r.purchased_quantity)])
     /\ UNCHANGED <<unit_collection, product_collection, seeded, uuid_count, ops>>

\* ProductService.buy_product: the capacity check and the loss
BuyFit(p) ==
  LET r == loc[p].request
      product == loc[p].product
      unit == get_unit_by_id(unit_collection, product.unit_id)
  IN /\ pc[p] = "buy_fit"
     /\ IF unit = <<>>
          THEN Return(p, "buy", r, "UnitNotFoundByIdError", <<>>)
          ELSE IF ~does_product_fit_in_unit(unit[1], product_collection, r.purchased_quantity, product.volume)
            THEN Return(p, "buy", r, "ProductDoesNotFitInUnit", <<>>)
            ELSE Goto(p, "buy_update",
                      [op |-> "buy", request |-> r,
                       unit_id |-> product.unit_id,
                       used_space |-> used_space(product_collection, product.unit_id),
                       loss |-> calculate_loss(product, r.purchased_quantity)])
     /\ UNCHANGED <<unit_collection, product_collection, seeded, uuid_count, ops>>

\* mutant: the update of a purchase applied to the first record of the
\* collection, whatever its id
BuyUpdate_first_record(p) ==
  LET r == loc[p].request
      i == FirstIndex(1..Len(product_collection))
      updated == buy_update(product_collection[i], r.purchased_quantity, loc[p].loss)
  IN /\ pc[p] = "buy_update"
     /\ IF i = 0
          THEN /\ Return(p, "buy", r, "AttributeError", <<>>)
               /\ UNCHANGED product_collection
          ELSE /\ product_collection' = [product_collection EXCEPT ![i] = updated]
               /\ Return(p, "buy", r, "ok", <<updated>>)
     /\ UNCHANGED <<unit_collection, seeded, uuid_count, ops>>

\* ProductRepository.buy_product
BuyUpdate(p) ==
  LET r == loc[p].request
      i == FirstIndex({k \in 1..Len(product_collection) :
                         product_collection[k].id = r.product_id})
      updated == buy_update(product_collection[i], r.purchased_quantity, loc[p].loss)
  IN /\ pc[p] = "buy_update"
     /\ IF i = 0
          THEN /\ Return(p, "buy", r, "AttributeError", <<>>)
               /\ UNCHANGED product_collection
          ELSE /\ product_collection' = [product_collection EXCEPT ![i] = updated]
               /\ Return(p, "buy", r, "ok", <<updated>>)
     /\ UNCHANGED <<unit_collection, seeded, uuid_count, ops>>

\* mutant: search_products without the validation of the range
SearchBegin_unvalidated(p, order_field, order_type, name, id, min_quantity, max_quantity, unit_id) ==
  LET request == [order_field |-> order_field, order_type |-> order_type,
                  name |-> name, id |-> id, min_quantity |-> min_quantity,
                  max_quantity |-> max_quantity, unit_id |-> unit_id]
      field == IF order_field \notin {"name", "quantity"} THEN None ELSE order_field
      type == IF field = None THEN None ELSE order_type
  IN /\ Begin(p)
     /\ \E result \in search_products(product_collection, field, type, name, id, min_quantity, max_quantity, unit_id) :
          Return(p, "search", request, "ok", result)
     /\ UNCHANGED <<unit_collection, product_collection, seeded, uuid_count>>

\* ProductService.search_products: the validation of the range, then the
\* one query of the repository; the response carries the list of products
SearchBegin(p, order_field, order_type, name, id, min_quantity, max_quantity, unit_id) ==
  LET request == [order_field |-> order_field, order_type |-> order_type,
                  name |-> name, id |-> id, min_quantity |-> min_quantity,
                  max_quantity |-> max_quantity, unit_id |-> unit_id]
      field == IF order_field \notin {"name", "quantity"} THEN None ELSE order_field
      type == IF field = None THEN None ELSE order_type
  IN /\ Begin(p)
     /\ IF /\ min_quantity # <<>>
           /\ max_quantity # <<>>
           /\ \/ min_quantity[1] > max_quantity[1]
              \/ min_quantity[1] < 0
              \/ max_quantity[1] < 0
          THEN Return(p, "search", request, "ValueError", <<>>)
          ELSE \E result \in search_products(product_collection, field, type, name, id, min_quantity, max_quantity, unit_id) :
                 Return(p, "search", request, "ok", result)
     /\ UNCHANGED <<unit_collection, product_collection, seeded, uuid_count>>

\* ProductService.get_product_by_id: the unit must exist when it is named,
\* and the product must exist (in that unit, when it is named)
GetProductById(p, id, unit_id) ==
  LET request == [id |-> id, unit_id |-> unit_id]
      product == get_product_by_id(product_collection, id, unit_id)
  IN /\ Begin(p)
     /\ IF unit_id # None /\ get_unit_by_id(unit_collection, unit_id) = <<>>
          THEN Return(p, "get_product_by_id", request, "UnitNotFoundByIdError", <<>>)
          ELSE IF product = <<>>
            THEN Return(p, "get_product_by_id", request, "ProductNotFoundByIdError", <<>>)
            ELSE Return(p, "get_product_by_id", request, "ok", product)
     /\ UNCHANGED <<unit_collection, product_collection, seeded, uuid_count>>

\* ProductService.get_products_from_unit: the products of a unit that exists
GetProductsFromUnit(p, unit_id) ==
  LET request == [unit_id |-> unit_id]
      M(d) == d.unit_id = unit_id
      found == SelectSeq(product_collection, M)
  IN /\ Begin(p)
     /\ IF get_unit_by_id(unit_collection, unit_id) = <<>>
          THEN Return(p, "get_products_from_unit", request, "UnitNotFoundByIdError", <<>>)
          ELSE Return(p, "get_products_from_unit", request, "ok",
                      [i \in 1..Len(found) |-> from_dict(found[i])])
     /\ UNCHANGED <<unit_collection, product_collection, seeded, uuid_count>>

\* mutant: the POST of the sell route without the lookup of the product in
\* the unit of the session
SellRouteCheck_unchecked(p, session_unit, product_id, quantity_to_sell) ==
  LET request == [product_id |-> product_id,
                  quantity_to_sell |-> IF quantity_to_sell = <<>> THEN 0 ELSE quantity_to_sell[1],
                  unit_id |-> None, session_unit |-> session_unit]
  IN /\ Begin(p)
     /\ IF product_id = None \/ quantity_to_sell = <<>>
          THEN Return(p, "sell_route", request, "rendered", <<>>)
          ELSE Goto(p, "sell_route", [op |-> "sell_route", request |-> request])
     /\ UNCHANGED <<unit_collection, product_collection, seeded, uuid_count>>

\* the POST of the sell route up to its call of the service: the form
\* fields, then _get_product_or_error(product_id, session["unit_id"]), whose
\* UnitNotFoundByIdError no handler of the route catches
SellRouteCheck(p, session_unit, product_id, quantity_to_sell) ==
  LET request == [product_id |-> product_id,
                  quantity_to_sell |-> IF quantity_to_sell = <<>> THEN 0 ELSE quantity_to_sell[1],
                  unit_id |-> None, session_unit |-> session_unit]
      product_to_sell == get_product_by_id(product_collection, product_id, session_unit)
  IN /\ Begin(p)
     /\ IF product_id = None
          THEN Return(p, "sell_route", request, "rendered", <<>>)
          ELSE IF session_unit # None /\ get_unit_by_id(unit_collection, session_unit) = <<>>
            THEN Return(p, "sell_route", request, "UnitNotFoundByIdError", <<>>)
            ELSE IF product_to_sell = <<>>
              THEN Return(p, "sell_route", request, "Could not find product.", <<>>)
              ELSE IF quantity_to_sell = <<>>
                THEN Return(p, "sell_route", request, "rendered", product_to_sell)
                ELSE Goto(p, "sell_route", [op |-> "sell_route", request |-> request])
     /\ UNCHANGED <<unit_collection, product_collection, seeded, uuid_count>>

\* _sell_product_or_error: ProductService.sell_product(product_id, quantity)
\* without a unit, up to its repository update
SellRouteCall(p) ==
  LET r == loc[p].request
      product == get_product_by_id(product_collection, r.product_id, None)
  IN /\ pc[p] = "sell_route"
     /\ IF product = <<>>
          THEN Return(p, "sell", r, "ProductNotFoundByIdError", <<>>)
          ELSE IF r.quantity_to_sell < 0
            THEN Return(p, "sell", r, "InsufficientProductQuantity", <<>>)
            ELSE Goto(p, "sell_update",
                      [op |-> "sell", request |-> r,
                       profit |-> calculate_profit(product[1], r.quantity_to_sell)])
     /\ UNCHANGED <<unit_collection, product_collection, seeded, uuid_count, ops>>

\* a request to a view wrapped by login_required and required_role(min_role)
ViewBegin(p, min_role) ==
  LET request == [min_role |-> min_role, session |-> session[p]]
  IN /\ Begin(p)
     /\ Reply(p, "view", request,
              login_required(session[p], required_role(session[p], min_role)), <<>>)
     /\ UNCHANGED <<unit_collection, product_collection, seeded, uuid_count,
                    user_collection, session>>

\* the POST of login: the three form fields, get_user, then the session
LoginBegin(p, username, password, unit_id) ==
  LET request == [username |-> username, password |-> password, unit_id |-> unit_id]
      found == get_user(user_collection, unit_collection, username, password, unit_id)
      user == found.user[1]
  IN /\ Begin(p)
     /\ IF found.outcome = "ok"
          THEN /\ session' = [session EXCEPT ![p] = Session(user.id, user.unit_id, user.role)]
               /\ Reply(p, "login", request, "ok", <<>>)
          ELSE /\ Reply(p, "login", request, found.outcome, <<>>)
               /\ UNCHANGED session
     /\ UNCHANGED <<unit_collection, product_collection, seeded, uuid_count,
                    user_collection>>

\* logout: session.clear()
LogoutBegin(p) ==
  /\ Begin(p)
  /\ session' = [session EXCEPT ![p] = NoSession]
  /\ Reply(p, "logout", [session |-> session[p]], "ok", <<>>)
  /\ UNCHANGED <<unit_collection, product_collection, seeded, uuid_count,
                 user_collection>>

\* EmployeeService.delete_employee_by_id: the unit, when one is given, then
\* the delete_one of the repository and the test of its result
DeleteEmployeeBegin(p, employee_id, unit_id) ==
  LET request == [employee_id |-> employee_id, unit_id |-> unit_id]
      i == FirstIndex({k \in 1..Len(user_collection) :
                         delete_filter(user_collection[k], employee_id, unit_id)})
  IN /\ Begin(p)
     /\ IF unit_id # None /\ get_unit_by_id(unit_collection, unit_id) = <<>>
          THEN /\ Reply(p, "delete_employee", request, "UnitNotFoundByIdError", <<>>)
               /\ UNCHANGED user_collection
          ELSE /\ user_collection' = delete_one(user_collection, i)
               /\ IF ~acknowledged
                    THEN Reply(p, "delete_employee", request, "UserNotFoundByIdError", <<>>)
                    ELSE Reply(p, "delete_employee", request, "ok", <<>>)
     /\ UNCHANGED <<unit_collection, product_collection, seeded, uuid_count, session>>

\* bound: the documents that the handlers in flight may still insert
Pending(p) ==
  IF pc[p] = "insert_write" THEN 1
  ELSE IF pc[p] = "insert_many" THEN Len(loc[p].insert_list)
  ELSE 0

\* bound: n more documents keep the collection within MaxDocs
RoomFor(n) ==
  Len(product_collection) + SumSeq([p \in 1..Cardinality(Procs) |-> Pending(p)]) + n <= MaxDocs

\* ProductService.insert_product with a unit_id: the capacity check.
\* nulls are the arguments that are None; int(quantity) and float(volume)
\* are evaluated before the check is called and raise TypeError on None.
InsertBegin(p, product, unit_id, nulls) ==
  LET request == [product |-> product, unit_id |-> unit_id, nulls |-> nulls]
      unit == get_unit_by_id(unit_collection, unit_id)
  IN /\ Begin(p)
     /\ unit_id # None
     /\ RoomFor(1)
     /\ product.id = None => uuid_count < MaxUuid
     /\ IF nulls \cap {"quantity", "volume"} # {}
          THEN Return(p, "insert", request, "TypeError", <<>>)
          ELSE IF unit = <<>>
            THEN Return(p, "insert", request, "UnitNotFoundByIdError", <<>>)
            ELSE IF ~does_product_fit_in_unit(unit[1], product_collection, product.quantity, product.volume)
            THEN Return(p, "insert", request, "ValueError", <<>>)
            ELSE Goto(p, "insert_write",
                      [op |-> "insert", request |-> request,
                       unit_id |-> unit_id,
                       used_space |-> used_space(product_collection, unit_id)])
     /\ UNCHANGED <<unit_collection, product_collection, seeded, uuid_count>>

\* ProductService._insert_product_to_unit; the response carries the
\* document that the InsertOneResult stands for.  A None among the
\* arguments fails a conversion or Product.from_dict inside the try, and
\* is raised again as ValueError before a Product is constructed.
InsertWrite(p) ==
  LET r == loc[p].request
      unit == get_unit_by_id(unit_collection, r.unit_id)
      fresh == r.product.id = None
      doc == [r.product EXCEPT
                !.id = IF fresh THEN uuid4(uuid_count) ELSE @,
                !.unit_id = r.unit_id]
  IN /\ pc[p] = "insert_write"
     /\ IF unit = <<>>
          THEN /\ Return(p, "insert", r, "UnitNotFoundByIdError", <<>>)
               /\ UNCHANGED <<product_collection, uuid_count>>
          ELSE IF r.nulls # {}
          THEN /\ Return(p, "insert", r, "ValueError", <<>>)
               /\ UNCHANGED <<product_collection, uuid_count>>
          ELSE /\ uuid_count' = IF fresh THEN uuid_count + 1 ELSE uuid_count
               /\ IF DuplicateKey(product_collection, doc)
                    THEN /\ Return(p, "insert", r, "DuplicateKeyError", <<>>)
                         /\ UNCHANGED product_collection
                    ELSE /\ product_collection' = Append(product_collection, doc)
                         /\ Return(p, "insert", r, "ok", <<doc>>)
     /\ UNCHANGED <<unit_collection, seeded, ops>>

\* ProductService._insert_product_to_all_units up to insert_products.
\* quantity, sold_quantity and unit_gain are not passed on: the method sets
\* them to 0.  A None among the other arguments fails Product.from_dict for
\* the first unit, before a Product is constructed.
InsertAllBegin(p, product, nulls) ==
  LET request == [product |-> product, unit_id |-> None, nulls |-> nulls]
      unit_ids == get_all_units_ids(unit_collection)
      fresh == product.id = None
      insert_list == [i \in 1..Len(unit_ids) |->
                        [product EXCEPT
                           !.id = IF fresh THEN uuid4(uuid_count + i - 1) ELSE @,
                           !.quantity = 0, !.sold_quantity = 0,
                           !.unit_gain = 0, !.unit_id = unit_ids[i]]]
  IN /\ Begin(p)
     /\ RoomFor(Len(unit_ids))
     /\ fresh => uuid_count + Len(unit_ids) <= MaxUuid
     /\ IF unit_ids # <<>> /\ nulls \cap DefinitionFields # {}
          THEN /\ Return(p, "insert", request, "ValueError", <<>>)
               /\ UNCHANGED uuid_count
          ELSE /\ uuid_count' = IF fresh THEN uuid_count + Len(unit_ids) ELSE uuid_count
               /\ IF insert_list = <<>>
                    THEN Return(p, "insert", request, "TypeError", <<>>)
                    ELSE Goto(p, "insert_many",
                              [op |-> "insert", request |-> request,
                               insert_list |-> insert_list])
     /\ UNCHANGED <<unit_collection, product_collection, seeded>>

\* ProductRepository.insert_products: insert_many writes its documents in
\* order, one at a time, and stops at the first that the index rejects
InsertMany(p) ==
  LET r == loc[p].request
      doc == Head(loc[p].insert_list)
      rest == Tail(loc[p].insert_list)
  IN /\ pc[p] = "insert_many"
     /\ IF DuplicateKey(product_collection, doc)
          THEN /\ Return(p, "insert", r, "BulkWriteError", <<>>)
               /\ UNCHANGED product_collection
          ELSE /\ product_collection' = Append(product_collection, doc)
               /\ IF rest = <<>>
                    THEN Return(p, "insert", r, "ok", <<>>)
                    ELSE Goto(p, "insert_many",
                              [op |-> "insert", request |-> r, insert_list |-> rest])
     /\ UNCHANGED <<unit_collection, seeded, uuid_count, ops>>

\* ---------------------------------------------------------------- requests
\* the units of populatedb, their volume scaled from 100 down to 4 so that
\* the quantities of the requests fill a unit
Units == <<[id |-> "u1", name |-> "unit_1", volume |-> 4],
           [id |-> "u2", name |-> "unit_2", volume |-> 4]>>

\* the product definitions that requests carry: per-item volume, prices
Catalog ==
  {[id |-> "p1", volume |-> 2, purchase_price |-> 1, selling_price |-> 3],
   [id |-> "p2", volume |-> 1, purchase_price |-> 2, selling_price |-> 3],
   [id |-> None, volume |-> 2, purchase_price |-> 1, selling_price |-> 2]}

ProductArgs(quantities) ==
  {Product(c.id, "pr1", q, 0, 1, c.volume, "Book", c.purchase_price, c.selling_price, "Acme", 0, None) :
     c \in Catalog, q \in quantities}

Init ==
  /\ unit_collection = Units
  /\ product_collection = <<>>
  /\ seeded = product_collection
  /\ uuid_count = 0
  /\ pc = [p \in Procs |-> "idle"]
  /\ loc = [p \in Procs |-> Idle]
  /\ res = [p \in Procs |-> NoResponse]
  /\ ops = 0
  /\ user_collection = Users
  /\ session = [p \in Procs |-> NoSession]

Sell(p) ==
  \E id \in ProductIds, q \in QtyArgs, u \in UnitIds \cup {None} :
    SellBegin(p, id, q, u)

Buy(p) == \E id \in ProductIds, n \in QtyArgs \ {0} : BuyBegin(p, id, n)

Insert(p) ==
  \E product \in ProductArgs(QtyArgs \ {0}), u \in UnitArgs :
    InsertBegin(p, product, u, {})

InsertAll(p) ==
  \E product \in ProductArgs({MaxQty}) : InsertAllBegin(p, product, {})

Next ==
  \E p \in Procs :
    \/ Sell(p)
    \/ SellUpdate(p)
    \/ Buy(p)
    \/ BuyFit(p)
    \/ BuyUpdate(p)
    \/ Insert(p)
    \/ InsertWrite(p)
    \/ InsertAll(p)
    \/ InsertMany(p)

Spec == Init /\ [][Next]_vars

\* ---------------------------------------------------------------- one request at a time
Quiet(p) == \A o \in Procs \ {p} : pc[o] = "idle"

NextSeq ==
  \E p \in Procs :
    \/ Quiet(p) /\ Sell(p)
    \/ Quiet(p) /\ SellUpdate(p)
    \/ Quiet(p) /\ Buy(p)
    \/ Quiet(p) /\ BuyFit(p)
    \/ Quiet(p) /\ BuyUpdate(p)
    \/ Quiet(p) /\ Insert(p)
    \/ Quiet(p) /\ InsertWrite(p)
    \/ Quiet(p) /\ InsertAll(p)
    \/ Quiet(p) /\ InsertMany(p)

SpecSeq == Init /\ [][NextSeq]_vars

\* ---------------------------------------------------------------- inserts with None arguments
\* sold_quantity arguments: insert_product takes the figure from its caller
SoldArgs == {-1, 0, 1}

\* the product definitions of the requests that carry a None or a
\* sold_quantity
NullProbes ==
  {[d EXCEPT !.sold_quantity = s] :
     d \in {e \in ProductArgs({1}) : e.id # "p2"}, s \in SoldArgs}

InsertNull(p) ==
  \E product \in NullProbes, u \in {"u1", "u0"}, nulls \in NullArgs :
    InsertBegin(p, product, u, nulls)

InsertAllNull(p) ==
  \E product \in NullProbes, nulls \in NullArgs :
    InsertAllBegin(p, product, nulls)

NextInsert ==
  \E p \in Procs :
    \/ InsertNull(p)
    \/ InsertWrite(p)
    \/ InsertAllNull(p)
    \/ InsertMany(p)

SpecInsert == Init /\ [][NextInsert]_vars

\* ---------------------------------------------------------------- a stocked store
\* a stock record of catalog entry c: q items in unit u, nothing sold yet
Stocked(c, q, u) ==
  Product(c.id, "pr1", q, 0, 1, c.volume, "Book", c.purchase_price, c.selling_price, "Acme", 0, u)

StockRecords ==
  {Stocked(c, q, u) : c \in {e \in Catalog : e.id # None}, q \in 0..MaxQty, u \in UnitIds}

WithinCapacity(coll) ==
  \A i \in 1..Len(unit_collection) :
    used_space(coll, unit_collection[i].id) <= unit_collection[i].volume

\* the stores of one or two records that respect the index on id and the
\* capacity of every unit
Stores ==
  {<<d>> : d \in StockRecords} \cup
  {<<d, e>> : d \in StockRecords, e \in {x \in StockRecords : x.quantity = 1}}

InitStocked ==
  /\ unit_collection = Units
  /\ product_collection \in Stores
  /\ product_collection[1].id # product_collection[Len(product_collection)].id
       \/ Len(product_collection) = 1
  /\ WithinCapacity(product_collection)
  /\ seeded = product_collection
  /\ uuid_count = 0
  /\ pc = [p \in Procs |-> "idle"]
  /\ loc = [p \in Procs |-> Idle]
  /\ res = [p \in Procs |-> NoResponse]
  /\ ops = 0
  /\ user_collection = Users
  /\ session = [p \in Procs |-> NoSession]

\* two handlers, each serving one sell, with nothing else running
SellOnce(p) == res[p] = NoResponse /\ Sell(p)

NextSellPair == \E p \in Procs : SellOnce(p) \/ SellUpdate(p)

SpecSellPair == InitStocked /\ [][NextSellPair]_vars

\* two handlers, each serving one buy or one sell, in every interleaving
TradeOnce(p) == res[p] = NoResponse /\ (Sell(p) \/ Buy(p))

NextTrade ==
  \E p \in Procs :
    \/ TradeOnce(p)
    \/ SellUpdate(p)
    \/ BuyFit(p)
    \/ BuyUpdate(p)

SpecTrade == InitStocked /\ [][NextTrade]_vars

\* two sessions, each posting one sale to the sell route; the session of an
\* employee or supervisor holds the unit of the user, which may name a unit
\* that is not in the unit collection, and the session of the admin holds None
SessionUnits == UnitArgs \cup {None}

SellRoute(p) ==
  \E u \in SessionUnits, id \in ProductIds \cup {None},
     q \in {<<>>} \cup {<<n>> : n \in QtyArgs} :
    SellRouteCheck(p, u, id, q)

SellRouteOnce(p) == res[p] = NoResponse /\ SellRoute(p)

NextSellRoute ==
  \E p \in Procs :
    \/ SellRouteOnce(p)
    \/ SellRouteCall(p)
    \/ SellUpdate(p)

SpecSellRoute == InitStocked /\ [][NextSellRoute]_vars

\* a sell of the whole quantity of a record, then the same request again
SellFirst ==
  /\ ops = 0
  /\ \E i \in 1..Len(seeded), u \in UnitIds \cup {None} :
       /\ u # None => u = seeded[i].unit_id
       /\ SellBegin(1, seeded[i].id, seeded[i].quantity, u)

SellAgain ==
  /\ res[1].op = "sell"
  /\ res[2] = NoResponse
  /\ SellBegin(2, res[1].request.product_id, res[1].request.quantity_to_sell, res[1].request.unit_id)

NextSellTwice == SellFirst \/ SellAgain \/ \E p \in Procs : SellUpdate(p)

SpecSellTwice == InitStocked /\ [][NextSellTwice]_vars

\* ---------------------------------------------------------------- the capacity check alone
\* per-item volumes of the products that a check asks about
VolumeArgs == {1, 2}

\* ProductService._does_product_fit_in_unit, called on its own: it returns
\* a bool or raises UnitNotFoundByIdError
FitsBegin(p, unit_id, product_quantity, product_volume) ==
  LET request == [unit_id |-> unit_id, product_quantity |-> product_quantity,
                  product_volume |-> product_volume]
      unit == get_unit_by_id(unit_collection, unit_id)
  IN /\ Begin(p)
     /\ IF unit = <<>>
          THEN Return(p, "fits", request, "UnitNotFoundByIdError", <<>>)
          ELSE IF does_product_fit_in_unit(unit[1], product_collection, product_quantity, product_volume)
            THEN Return(p, "fits", request, "True", <<>>)
            ELSE Return(p, "fits", request, "False", <<>>)
     /\ UNCHANGED <<unit_collection, product_collection, seeded, uuid_count>>

FitsOnce(p) ==
  /\ res[p] = NoResponse
  /\ \E u \in UnitArgs, n \in QtyArgs, v \in VolumeArgs : FitsBegin(p, u, n, v)

NextFits == \E p \in Procs : FitsOnce(p)

SpecFits == InitStocked /\ [][NextFits]_vars

\* ---------------------------------------------------------------- search
\* a stock record to search for: one item takes volume 1
SearchStock(id, name, quantity, unit_id) ==
  Product(id, name, quantity, 0, 1, 1, "Book", 1, 2, "Acme", 0, unit_id)

\* stores of three records: p1 and p2 in u1, a product with a uuid in u2
SearchStores ==
  {<<SearchStock("p1", "pr1", q1, "u1"), SearchStock("p2", n2, q2, "u1"),
     SearchStock(uuid4(0), "pr2", q3, "u2")>> :
     q1 \in 0..MaxQty, q2 \in 0..MaxQty, q3 \in 0..MaxQty, n2 \in {"pr1", "pr2"}}

InitSearch ==
  /\ unit_collection = Units
  /\ product_collection \in SearchStores
  /\ WithinCapacity(product_collection)
  /\ seeded = product_collection
  /\ uuid_count = 1
  /\ pc = [p \in Procs |-> "idle"]
  /\ loc = [p \in Procs |-> Idle]
  /\ res = [p \in Procs |-> NoResponse]
  /\ ops = 0
  /\ user_collection = Users
  /\ session = [p \in Procs |-> NoSession]

\* an optional bound of the range: None, or a quantity argument
BoundArgs == {<<>>} \cup {<<n>> : n \in QtyArgs}

\* the arguments of a search
OrderFieldArgs == {None, "name", "quantity", "selling_price"}
OrderTypeArgs == {None, "ascending", "descending"}
NameArgs == {None, "pr1", "pr2"}
IdArgs == {None, "p1", "p3"}

\* a search with every combination of filters and no ordering
SearchFiltered(p) ==
  /\ ops = 0
  /\ \E name \in NameArgs, id \in IdArgs, u \in UnitIds \cup {None} :
       \E min_quantity \in BoundArgs, max_quantity \in BoundArgs :
         SearchBegin(p, None, None, name, id, min_quantity, max_quantity, u)

\* a search with every combination of ordering, over all records, over
\* those of a unit and over those of a range
SearchOrdered(p) ==
  /\ ops = 0
  /\ \E order_field \in OrderFieldArgs, order_type \in OrderTypeArgs :
       \E u \in {None, "u1"}, range \in {<<>>, <<1>>} :
         SearchBegin(p, order_field, order_type, None, None, range, range, u)

NextSearch == \E p \in Procs : SearchFiltered(p) \/ SearchOrdered(p)

SpecSearch == InitSearch /\ [][NextSearch]_vars

\* ---------------------------------------------------------------- insert, then search
\* a search by id alone, for an id that a request or uuid4 may have given
SearchById(p) ==
  \E id \in ProductIds \cup {uuid4(n) : n \in 0..(MaxUuid - 1)} :
    SearchBegin(p, None, None, None, id, <<>>, <<>>, None)

NextRoundTrip ==
  \E p \in Procs :
    \/ Insert(p)
    \/ InsertWrite(p)
    \/ InsertAll(p)
    \/ InsertMany(p)
    \/ SearchById(p)

SpecRoundTrip == Init /\ [][NextRoundTrip]_vars

\* ---------------------------------------------------------------- one request of any kind
\* the empty store and the stocked stores
InitFrame ==
  /\ unit_collection = Units
  /\ \/ product_collection = <<>>
     \/ /\ product_collection \in Stores
        /\ product_collection[1].id # product_collection[Len(product_collection)].id
             \/ Len(product_collection) = 1
  /\ WithinCapacity(product_collection)
  /\ seeded = product_collection
  /\ uuid_count = 0
  /\ pc = [p \in Procs |-> "idle"]
  /\ loc = [p \in Procs |-> Idle]
  /\ res = [p \in Procs |-> NoResponse]
  /\ ops = 0
  /\ user_collection = Users
  /\ session = [p \in Procs |-> NoSession]

Fits(p) == \E u \in UnitArgs, n \in QtyArgs, v \in VolumeArgs : FitsBegin(p, u, n, v)

GetProduct(p) ==
  \E id \in ProductIds, u \in UnitArgs \cup {None} : GetProductById(p, id, u)

GetProducts(p) == \E u \in UnitArgs : GetProductsFromUnit(p, u)

\* one request, of any kind, against any of the stores
NextFrame ==
  \E p \in Procs :
    \/ ops = 0 /\ Sell(p)
    \/ SellUpdate(p)
    \/ ops = 0 /\ Buy(p)
    \/ BuyFit(p)
    \/ BuyUpdate(p)
    \/ ops = 0 /\ Insert(p)
    \/ InsertWrite(p)
    \/ ops = 0 /\ InsertAll(p)
    \/ InsertMany(p)
    \/ ops = 0 /\ SearchById(p)
    \/ ops = 0 /\ Fits(p)
    \/ ops = 0 /\ GetProduct(p)
    \/ ops = 0 /\ GetProducts(p)

SpecFrame == InitFrame /\ [][NextFrame]_vars

\* ---------------------------------------------------------------- roles
\* the sessions a request may carry: an empty one, and for every stored
\* user the session that login writes for it, so that every role of the
\* hierarchy meets every min_role
Sessions ==
  {NoSession} \cup {Session(Users[i].id, Users[i].unit_id, Users[i].role) : i \in 1..Len(Users)}

InitRole ==
  /\ unit_collection = Units
  /\ product_collection = <<>>
  /\ seeded = product_collection
  /\ uuid_count = 0
  /\ pc = [p \in Procs |-> "idle"]
  /\ loc = [p \in Procs |-> Idle]
  /\ res = [p \in Procs |-> NoResponse]
  /\ ops = 0
  /\ user_collection = Users
  /\ session \in [Procs -> Sessions]

View(p) == \E min_role \in {hierarchy[i] : i \in 1..Len(hierarchy)} : ViewBegin(p, min_role)

NextRole == \E p \in Procs : View(p)

SpecRole == InitRole /\ [][NextRole]_vars

\* ---------------------------------------------------------------- users and sessions
Usernames == {"js", "bw", "admin", "nobody"}
Passwords == {"12", "admin123"}
\* the unit_id field of the login form: a string, empty when left blank
UnitFields == UnitArgs \cup {""}
EmployeeIds == {"e1", "e2", "s1", "e0"}

Login(p) ==
  \E username \in Usernames, password \in Passwords, unit_id \in UnitFields :
    LoginBegin(p, username, password, unit_id)

Logout(p) == LogoutBegin(p)

DeleteEmployee(p) ==
  \E employee_id \in EmployeeIds, unit_id \in UnitArgs \cup {None} :
    DeleteEmployeeBegin(p, employee_id, unit_id)

NextUsers ==
  \E p \in Procs :
    \/ Login(p)
    \/ Logout(p)
    \/ View(p)
    \/ DeleteEmployee(p)

SpecUsers == Init /\ [][NextUsers]_vars

\* ================================================================ claims
\* handler p returned or raised in this step
Returned(p, op) == res'[p] # res[p] /\ res'[p].op = op

\* document d is the one a sell request addresses
Addressed(d, r) ==
  /\ d.id = r.product_id
  /\ (r.unit_id # None => d.unit_id = r.unit_id)

\* C1: every stock record has quantity >= 0 in every reachable state.
\* The code validates no quantity on insert or buy: refuted.
C1_QuantityNonNegative ==
  \A i \in 1..Len(product_collection) : product_collection[i].quantity >= 0

\* the two sells of SpecSellPair have returned, and both address record i
PairDone(i) ==
  \A p \in Procs :
    /\ res[p].op = "sell"
    /\ Addressed(seeded[i], res[p].request)

Sold(p) == res[p].outcome = "ok"

\* C2: of two concurrent sells against one record, both succeed only if
\* the record held at least q1 + q2 before them, and when one of them asks
\* for the whole quantity and the other for q2 > 0, exactly one succeeds,
\* in every interleaving.
C2_ConcurrentSells ==
  \A i \in 1..Len(seeded) :
    PairDone(i) =>
      /\ (\A p \in Procs : Sold(p)) =>
           seeded[i].quantity >= res[1].request.quantity_to_sell
                                  + res[2].request.quantity_to_sell
      /\ \A p \in Procs : \A o \in Procs \ {p} :
           (/\ res[p].request.quantity_to_sell = seeded[i].quantity
            /\ res[o].request.quantity_to_sell > 0) =>
             (Sold(p) /\ ~Sold(o)) \/ (Sold(o) /\ ~Sold(p))

\* the sell that asked for less than the whole quantity won the race
C2_Witness ==
  \E i \in 1..Len(seeded) :
    /\ PairDone(i)
    /\ res[1].request.quantity_to_sell = seeded[i].quantity
    /\ res[2].request.quantity_to_sell > 0
    /\ res[2].request.quantity_to_sell < seeded[i].quantity
    /\ Sold(2)
    /\ ~Sold(1)
    /\ res[1].seq < res[2].seq

\* the capacity relation: no unit holds more than its volume
CapacityHolds == WithinCapacity(product_collection)

\* C3: with one request at a time, the capacity relation holds after every
\* successful insert or buy (here: in every state, as it holds at startup).
C3_CapacityKeptInSequence == CapacityHolds

\* a buy has filled a unit to the brim
C3_Witness ==
  \E p \in Procs, i \in 1..Len(unit_collection) :
    /\ res[p].op = "buy"
    /\ res[p].outcome = "ok"
    /\ res[p].request.purchased_quantity > 0
    /\ res[p].product[1].unit_id = unit_collection[i].id
    /\ used_space(product_collection, unit_collection[i].id) = unit_collection[i].volume

\* handler p wrote stock into unit u in this step
Stocks(p, u) ==
  /\ \/ Returned(p, "insert") /\ pc[p] = "insert_write"
     \/ Returned(p, "buy") /\ pc[p] = "buy_update"
  /\ res'[p].outcome = "ok"
  /\ res'[p].product[1].unit_id = u

\* C4: the capacity check is not atomic with the write.  A write that
\* leaves its unit over capacity is always one whose check read a used
\* space that another request has changed since; C4_Witness is the
\* interleaving in which two inserts both pass the check and overflow.
C4_OverflowOnlyByRace ==
  [][\A p \in Procs, i \in 1..Len(unit_collection) :
       LET u == unit_collection[i]
       IN (/\ Stocks(p, u.id)
           /\ used_space(product_collection', u.id) > u.volume) =>
            used_space(product_collection, u.id) # loc[p].used_space]_vars

C4_Witness ==
  \E i \in 1..Len(unit_collection) :
    /\ ops = 2
    /\ \A p \in Procs :
         /\ res[p].op = "insert"
         /\ res[p].outcome = "ok"
         /\ res[p].request.unit_id = unit_collection[i].id
         /\ res[p].request.product.quantity > 0
    /\ used_space(product_collection, unit_collection[i].id) > unit_collection[i].volume

\* the second of the two identical sells of SpecSellTwice has returned
TwiceDone == res[2].op = "sell"

\* C7 as stated: for every q, selling q from a record that holds q succeeds
\* once and the identical second sell raises InsufficientProductQuantity.
\* Refuted by q = 0.
C7_SecondSellFails ==
  TwiceDone =>
    /\ res[1].outcome = "ok"
    /\ res[2].outcome = "InsufficientProductQuantity"

\* C7 amended: the same for every q > 0.
C7_SecondSellFailsPositive ==
  (TwiceDone /\ res[2].request.quantity_to_sell > 0) =>
    /\ res[1].outcome = "ok"
    /\ res[2].outcome = "InsufficientProductQuantity"

C7_Witness ==
  /\ TwiceDone
  /\ res[2].request.quantity_to_sell > 0
  /\ res[1].outcome = "ok"
  /\ res[2].outcome = "InsufficientProductQuantity"
  /\ res[2].request = res[1].request

\* C5: a successful sell of q >= 0 takes exactly q from the quantity of the
\* record it matched, adds (selling_price - purchase_price) * q to its
\* unit_gain, and returns that record as it is after the update.
C5_SellEffect ==
  [][\A p \in Procs :
       (Returned(p, "sell") /\ res'[p].outcome = "ok") =>
         LET r == res'[p].request
         IN /\ r.quantity_to_sell >= 0
            /\ \E i \in 1..Len(product_collection) :
                 LET d == product_collection[i]
                     e == product_collection'[i]
                 IN /\ Addressed(d, r)
                    /\ e.quantity = d.quantity - r.quantity_to_sell
                    /\ e.unit_gain = d.unit_gain
                         + (d.selling_price - d.purchase_price) * r.quantity_to_sell
                    /\ res'[p].product = <<e>>]_vars

C5_Witness ==
  \E p \in Procs :
    /\ res[p].op = "sell"
    /\ res[p].outcome = "ok"
    /\ res[p].request.quantity_to_sell > 0
    /\ res[p].product[1].unit_gain # 0

\* C6: a successful sell of q adds exactly q to the sold_quantity of the
\* record it matched.  The update increments quantity and unit_gain only:
\* refuted.
C6_SoldQuantityGrows ==
  [][\A p \in Procs :
       (Returned(p, "sell") /\ res'[p].outcome = "ok") =>
         LET r == res'[p].request
         IN \E i \in 1..Len(product_collection) :
              /\ Addressed(product_collection[i], r)
              /\ product_collection'[i].quantity
                   = product_collection[i].quantity - r.quantity_to_sell
              /\ product_collection'[i].sold_quantity
                   = product_collection[i].sold_quantity + r.quantity_to_sell]_vars

\* C8 as stated: a sell of a negative quantity raises
\* InsufficientProductQuantity whatever product_id and unit_id are, and
\* changes no record.  Refuted by a product_id that no record has.
C8_NegativeSellInsufficient ==
  [][\A p \in Procs :
       (Returned(p, "sell") /\ res'[p].request.quantity_to_sell < 0) =>
         /\ res'[p].outcome = "InsufficientProductQuantity"
         /\ product_collection' = product_collection]_vars

\* C8 amended: a sell of a negative quantity always fails and changes no
\* record; it raises InsufficientProductQuantity when some record has the
\* product id, and ProductNotFoundByIdError when none has.
C8_NegativeSellFails ==
  [][\A p \in Procs :
       (Returned(p, "sell") /\ res'[p].request.quantity_to_sell < 0) =>
         /\ res'[p].outcome =
              IF \E i \in 1..Len(product_collection) :
                   product_collection[i].id = res'[p].request.product_id
                THEN "InsufficientProductQuantity"
                ELSE "ProductNotFoundByIdError"
         /\ product_collection' = product_collection]_vars

C8_Witness ==
  \E p \in Procs :
    /\ res[p].op = "sell"
    /\ res[p].request.quantity_to_sell < 0
    /\ res[p].outcome = "InsufficientProductQuantity"
    /\ \E i \in 1..Len(product_collection) :
         /\ product_collection[i].id = res[p].request.product_id
         /\ product_collection[i].quantity >= 0

\* C9: a sell of q against a record whose quantity is below q raises
\* InsufficientProductQuantity and leaves every record unchanged.
C9_OversellFails ==
  [][\A p \in Procs :
       (/\ Returned(p, "sell")
        /\ \E i \in 1..Len(product_collection) :
             /\ Addressed(product_collection[i], res'[p].request)
             /\ product_collection[i].quantity < res'[p].request.quantity_to_sell) =>
         /\ res'[p].outcome = "InsufficientProductQuantity"
         /\ product_collection' = product_collection]_vars

C9_Witness ==
  \E p \in Procs :
    /\ res[p].op = "sell"
    /\ res[p].outcome = "InsufficientProductQuantity"
    /\ res[p].request.quantity_to_sell > 0
    /\ \E i \in 1..Len(product_collection) :
         /\ Addressed(product_collection[i], res[p].request)
         /\ product_collection[i].quantity > 0
         /\ product_collection[i].quantity < res[p].request.quantity_to_sell

\* C10: a failing sell of q >= 0 raises the not-found error exactly when no
\* record matches product_id (and unit_id, when given), and
\* InsufficientProductQuantity exactly when such a record exists with less
\* than q.  The existence check ignores unit_id: refuted.
C10_FailureCausesDistinguished ==
  [][\A p \in Procs :
       (/\ Returned(p, "sell")
        /\ res'[p].request.quantity_to_sell >= 0
        /\ res'[p].outcome # "ok") =>
         LET r == res'[p].request
             exists == \E i \in 1..Len(product_collection) :
                         Addressed(product_collection[i], r)
             short == \E i \in 1..Len(product_collection) :
                        /\ Addressed(product_collection[i], r)
                        /\ product_collection[i].quantity < r.quantity_to_sell
         IN /\ (res'[p].outcome = "ProductNotFoundByIdError") <=> ~exists
            /\ (res'[p].outcome = "InsufficientProductQuantity") <=> short]_vars

\* C11: a successful buy of n adds exactly n to the quantity of the record
\* with the product id and takes n * purchase_price from its unit_gain, both
\* in the one step of the update, and returns that record as it is after
\* the update.
C11_BuyEffect ==
  [][\A p \in Procs :
       (Returned(p, "buy") /\ res'[p].outcome = "ok") =>
         LET r == res'[p].request
         IN \E i \in 1..Len(product_collection) :
              LET d == product_collection[i]
                  e == product_collection'[i]
              IN /\ d.id = r.product_id
                 /\ e.quantity = d.quantity + r.purchased_quantity
                 /\ e.unit_gain = d.unit_gain
                      - r.purchased_quantity * d.purchase_price
                 /\ res'[p].product = <<e>>]_vars

C11_Witness ==
  \E p \in Procs :
    /\ res[p].op = "buy"
    /\ res[p].outcome = "ok"
    /\ res[p].request.purchased_quantity > 0
    /\ res[p].product[1].unit_gain < 0
    /\ res[p].product[1].quantity > res[p].request.purchased_quantity

\* C12: a buy of a product id that no record has raises
\* ProductNotFoundByIdError; a buy whose capacity check finds the free space
\* of the product's unit below n * volume raises ProductDoesNotFitInUnit;
\* and a buy that does not succeed, whatever it raises, changes no record.
C12_BuyFailures ==
  [][\A p \in Procs :
       /\ Returned(p, "buy") =>
            /\ get_product_by_id(product_collection, res'[p].request.product_id, None) = <<>> =>
                 res'[p].outcome = "ProductNotFoundByIdError"
            /\ res'[p].outcome # "ok" =>
                 product_collection' = product_collection
       /\ (pc[p] = "buy_fit" /\ pc'[p] # pc[p]) =>
            LET r == loc[p].request
                found == get_product_by_id(product_collection, r.product_id, None)
                unit == get_unit_by_id(unit_collection, found[1].unit_id)
            IN (/\ found # <<>>
                /\ unit # <<>>
                /\ free_space(unit[1], product_collection)
                     < r.purchased_quantity * found[1].volume) =>
                 /\ Returned(p, "buy")
                 /\ res'[p].outcome = "ProductDoesNotFitInUnit"]_vars

\* a buy of a positive quantity was refused by a unit that is full
C12_Witness ==
  \E p \in Procs :
    /\ res[p].op = "buy"
    /\ res[p].outcome = "ProductDoesNotFitInUnit"
    /\ res[p].request.purchased_quantity > 0
    /\ \E i \in 1..Len(product_collection) :
         /\ product_collection[i].id = res[p].request.product_id
         /\ product_collection[i].quantity > 0

\* what an insert raises for a product that Product.from_dict rejects
ValidationError == "ValueError"

\* the outcomes that report an absent unit or product
NotFound == {"UnitNotFoundByIdError", "ProductNotFoundByIdError"}

\* the record that a request asks insert_product to create in unit u; a
\* request without an id leaves the id to uuid4
SameValues(e, product, u) ==
  e = [product EXCEPT !.unit_id = u,
                      !.id = IF product.id = None THEN e.id ELSE @]

\* C13: an insert into a named unit (no argument None) raises
\* UnitNotFoundByIdError when the unit does not exist; raises a does-not-fit
\* condition that is neither the validation error nor a not-found error
\* when its capacity check finds less free space than quantity * volume;
\* both create no record; and when the check passes it appends exactly one
\* record with the given values.  Refuted: the does-not-fit condition is the
\* ValueError of the validation error, and an insert that passes the check
\* is rejected by the unique index when the id is already stored.
C13_InsertIntoUnit ==
  [][\A p \in Procs :
       (/\ Returned(p, "insert")
        /\ res'[p].request.unit_id # None
        /\ res'[p].request.nulls = {}) =>
         LET r == res'[p].request
             unit == get_unit_by_id(unit_collection, r.unit_id)
             n == Len(product_collection)
         IN /\ unit = <<>> =>
                 /\ res'[p].outcome = "UnitNotFoundByIdError"
                 /\ product_collection' = product_collection
            /\ (/\ unit # <<>>
                /\ pc[p] = "idle"
                /\ free_space(unit[1], product_collection)
                     < r.product.quantity * r.product.volume) =>
                 /\ res'[p].outcome \notin {"ok", ValidationError} \cup NotFound
                 /\ product_collection' = product_collection
            /\ (unit # <<>> /\ pc[p] = "insert_write") =>
                 /\ res'[p].outcome = "ok"
                 /\ Len(product_collection') = n + 1
                 /\ SubSeq(product_collection', 1, n) = product_collection
                 /\ SameValues(product_collection'[n + 1], r.product, r.unit_id)]_vars

\* C14: an insert without a unit (no argument None) succeeds, and when it
\* returns every registered unit holds a record with the values of the
\* request and quantity, sold_quantity and unit_gain 0 (exactly one when
\* the request names the id), the records stored before being unchanged.
\* Refuted: with an id in the request the second document has the id of the
\* first, and the unique index rejects it.
C14_InsertIntoAllUnits ==
  [][\A p \in Procs :
       (/\ Returned(p, "insert")
        /\ res'[p].request.unit_id = None
        /\ res'[p].request.nulls = {}) =>
         LET r == res'[p].request
             empty == [r.product EXCEPT !.quantity = 0, !.sold_quantity = 0,
                                        !.unit_gain = 0]
             n == Len(product_collection)
         IN /\ res'[p].outcome = "ok"
            /\ SubSeq(product_collection', 1, n) = product_collection
            /\ \A k \in 1..Len(unit_collection) :
                 LET made == {i \in 1..Len(product_collection') :
                                SameValues(product_collection'[i], empty, unit_collection[k].id)}
                 IN /\ made # {}
                    /\ r.product.id # None => Cardinality(made) = 1]_vars

\* C15: an insert with a required argument None, into a registered unit or
\* into all units, raises the validation error, and no insert with such an
\* argument creates a record.  Refuted: a
\* None quantity or volume raises TypeError on the path into a unit, and
\* the path into all units never reads quantity, sold_quantity and
\* unit_gain, so that it stores records with 0 in their place.
C15_NullFieldRejected ==
  [][\A p \in Procs :
       /\ (/\ Returned(p, "insert")
           /\ res'[p].request.nulls # {}
           /\ \/ res'[p].request.unit_id = None
              \/ get_unit_by_id(unit_collection, res'[p].request.unit_id) # <<>>) =>
            res'[p].outcome = ValidationError
       /\ (/\ pc[p] \in {"insert_write", "insert_many"}
           /\ loc[p].request.nulls # {}
           /\ (pc'[p] # pc[p] \/ loc'[p] # loc[p])) =>
            product_collection' = product_collection]_vars

\* the sum of quantity * volume over the records of unit u among the first
\* n documents of coll
RECURSIVE Occupied(_, _, _)
Occupied(coll, u, n) ==
  IF n = 0 THEN 0
  ELSE Occupied(coll, u, n - 1)
         + (IF coll[n].unit_id = u THEN coll[n].quantity * coll[n].volume ELSE 0)

\* C16: the capacity check of (unit_id, n, v) returns True exactly when the
\* volume of the unit minus the sum of quantity * volume over the records
\* of the unit is at least n * v, an exact fit included; it raises
\* UnitNotFoundByIdError when no unit has the id; it changes no document.
C16_Fits ==
  [][\A p \in Procs :
       Returned(p, "fits") =>
         LET r == res'[p].request
             found == {k \in 1..Len(unit_collection) : unit_collection[k].id = r.unit_id}
         IN /\ found = {} => res'[p].outcome = "UnitNotFoundByIdError"
            /\ \A k \in found :
                 LET free == unit_collection[k].volume
                               - Occupied(product_collection, r.unit_id, Len(product_collection))
                 IN res'[p].outcome =
                      IF free >= r.product_quantity * r.product_volume
                        THEN "True" ELSE "False"
            /\ product_collection' = product_collection
            /\ unit_collection' = unit_collection]_vars

\* a check of a positive quantity that fills a partly used unit exactly
C16_Witness ==
  \E p \in Procs, k \in 1..Len(unit_collection) :
    /\ res[p].op = "fits"
    /\ res[p].outcome = "True"
    /\ res[p].request.unit_id = unit_collection[k].id
    /\ res[p].request.product_quantity > 0
    /\ Occupied(product_collection, res[p].request.unit_id, Len(product_collection)) > 0
    /\ unit_collection[k].volume
         - Occupied(product_collection, res[p].request.unit_id, Len(product_collection))
       = res[p].request.product_quantity * res[p].request.product_volume

\* both bounds of the range of search request r are supplied
BothBounds(r) == r.min_quantity # <<>> /\ r.max_quantity # <<>>

\* record d equals every filter that search request r supplies
EqualsFilters(d, r) ==
  /\ r.name = None \/ d.name = r.name
  /\ r.id = None \/ d.id = r.id
  /\ r.unit_id = None \/ d.unit_id = r.unit_id

\* the records that search request r asks for
Asked(coll, r) ==
  {coll[k] : k \in {j \in 1..Len(coll) :
     /\ EqualsFilters(coll[j], r)
     /\ BothBounds(r) => /\ r.min_quantity[1] <= coll[j].quantity
                         /\ coll[j].quantity <= r.max_quantity[1]}}

\* the records of a list, and no record twice
Listed(s) == {s[i] : i \in 1..Len(s)}

NoRepeat(s) == \A i \in 1..Len(s) : \A j \in 1..Len(s) : s[i] = s[j] => i = j

\* C17: a search that returns, returns exactly the records that equal
\* every supplied name, id and unit_id and, when both bounds are supplied,
\* have min_quantity <= quantity <= max_quantity; with one bound alone it
\* returns what it returns without bounds; and a search that no record
\* matches returns the empty list.
C17_SearchFilters ==
  [][\A p \in Procs :
       (Returned(p, "search") /\ res'[p].outcome = "ok") =>
         LET r == res'[p].request
             result == res'[p].product
         IN /\ Listed(result) = Asked(product_collection, r)
            /\ NoRepeat(result)
            /\ ~BothBounds(r) =>
                 Listed(result) = {product_collection[k] : k \in
                                     {j \in 1..Len(product_collection) :
                                        EqualsFilters(product_collection[j], r)}}
            /\ Asked(product_collection, r) = {} => result = <<>>]_vars

\* a range with both bounds kept one record of a unit and dropped another
C17_Witness ==
  \E p \in Procs :
    /\ res[p].op = "search"
    /\ res[p].outcome = "ok"
    /\ BothBounds(res[p].request)
    /\ res[p].request.unit_id # None
    /\ Len(res[p].product) = 1
    /\ \E k \in 1..Len(product_collection) :
         /\ product_collection[k].unit_id = res[p].request.unit_id
         /\ product_collection[k].quantity > res[p].request.max_quantity[1]

\* the range of search request r fails the validation
BadRange(r) ==
  /\ BothBounds(r)
  /\ \/ r.min_quantity[1] > r.max_quantity[1]
     \/ r.min_quantity[1] < 0
     \/ r.max_quantity[1] < 0

Key(d, order_field) ==
  IF order_field = "name"
    THEN CHOOSE i \in 1..Len(NameOrder) : NameOrder[i] = d.name
    ELSE d.quantity

\* C19: a search that returns with order_field "name" or "quantity" lists
\* its records in descending order of that field when order_type is
\* "descending" and in ascending order for every other order_type; with any
\* other order_field a search with a valid range returns, and lists the
\* records it asks for in the order of the query without sort.
C19_SearchOrder ==
  [][\A p \in Procs :
       Returned(p, "search") =>
         LET r == res'[p].request
             result == res'[p].product
             M(d) == d \in Asked(product_collection, r)
         IN IF r.order_field \in {"name", "quantity"}
              THEN res'[p].outcome = "ok" =>
                     \A i \in 1..Len(result) : \A j \in i..Len(result) :
                       IF r.order_type = "descending"
                         THEN Key(result[i], r.order_field) >= Key(result[j], r.order_field)
                         ELSE Key(result[i], r.order_field) <= Key(result[j], r.order_field)
              ELSE ~BadRange(r) =>
                     /\ res'[p].outcome = "ok"
                     /\ result = SelectSeq(product_collection, M)]_vars

\* a descending sort on quantity reversed the stored order of two records
C19_Witness ==
  \E p \in Procs :
    /\ res[p].op = "search"
    /\ res[p].outcome = "ok"
    /\ res[p].request.order_field = "quantity"
    /\ res[p].request.order_type = "descending"
    /\ Len(res[p].product) >= 2
    /\ res[p].product[1].quantity > res[p].product[2].quantity
    /\ \E i \in 1..Len(product_collection) : \E j \in i..Len(product_collection) :
         /\ product_collection[i] = res[p].product[2]
         /\ product_collection[j] = res[p].product[1]

\* C20: a record that an insert creates, on either path, holds the values
\* its request gave it, and a search by its id, from then on, returns that
\* record and no other.
C20_InsertSearchRoundTrip ==
  [][\A p \in Procs :
       LET n == Len(product_collection)
           e == product_collection'[n + 1]
           r == loc[p].request
       IN /\ (/\ pc[p] = "insert_write"
               /\ Len(product_collection') = n + 1
               /\ Returned(p, "insert")) =>
               /\ SameValues(e, r.product, r.unit_id)
               /\ search_products(product_collection', None, None, None, e.id, <<>>, <<>>, None) = {<<e>>}
          /\ (/\ pc[p] = "insert_many"
              /\ Len(product_collection') = n + 1
              /\ loc'[p] # loc[p]) =>
               /\ SameValues(e, [r.product EXCEPT !.quantity = 0, !.sold_quantity = 0, !.unit_gain = 0], e.unit_id)
               /\ search_products(product_collection', None, None, None, e.id, <<>>, <<>>, None) = {<<e>>}
          /\ Returned(p, "search") =>
               \A k \in 1..n :
                 product_collection[k].id = res'[p].request.id =>
                   /\ res'[p].outcome = "ok"
                   /\ res'[p].product = <<product_collection[k]>>]_vars

\* a search by the id of an inserted record returned the inserted values
C20_Witness ==
  \E p \in Procs : \E o \in Procs \ {p} :
    /\ res[p].op = "search"
    /\ res[p].outcome = "ok"
    /\ res[o].op = "insert"
    /\ res[o].outcome = "ok"
    /\ res[o].request.unit_id # None
    /\ res[o].seq < res[p].seq
    /\ Len(res[p].product) = 1
    /\ res[p].product[1].id = res[p].request.id
    /\ SameValues(res[p].product[1], res[o].request.product, res[o].request.unit_id)

\* the operations that only read, and insert
NotMutating ==
  {"search", "fits", "get_product_by_id", "get_products_from_unit", "insert"}

\* C21: no step removes a record; a step that changes a stored record is
\* the update of a successful buy or sell, changes that one record only,
\* in quantity, sold_quantity and unit_gain only, and returns it; search,
\* the capacity check, the two reads and insert change no stored record.
C21_Frame ==
  [][LET n == Len(product_collection)
     IN /\ Len(product_collection') >= n
        /\ \A i \in 1..n :
             product_collection'[i] # product_collection[i] =>
               /\ \E p \in Procs :
                    /\ Returned(p, "buy") \/ Returned(p, "sell")
                    /\ res'[p].outcome = "ok"
                    /\ res'[p].product = <<product_collection'[i]>>
               /\ product_collection[i] =
                    [product_collection'[i] EXCEPT
                       !.quantity = product_collection[i].quantity,
                       !.sold_quantity = product_collection[i].sold_quantity,
                       !.unit_gain = product_collection[i].unit_gain]
               /\ \A j \in (1..n) \ {i} :
                    product_collection'[j] = product_collection[j]
        /\ \A p \in Procs :
             (\/ \E op \in NotMutating : Returned(p, op)
              \/ (loc'[p] # loc[p] /\ loc[p].op = "insert")) =>
               SubSeq(product_collection', 1, n) = product_collection]_vars

\* a buy changed one record of a store of two and left the other
C21_Witness ==
  \E p \in Procs :
    /\ res[p].op = "buy"
    /\ res[p].outcome = "ok"
    /\ res[p].request.purchased_quantity > 0
    /\ Len(seeded) = 2
    /\ \E i \in 1..2 : \E j \in (1..2) \ {i} :
         /\ product_collection[i] # seeded[i]
         /\ product_collection[j] = seeded[j]

\* C22: the sold_quantity of every stored record is at least 0, and no
\* step lowers it.  No step changes it at all, but insert stores the
\* sold_quantity of its request unchecked: refuted by a negative one.
C22_SoldQuantityMonotonic ==
  [][/\ \A i \in 1..Len(product_collection') :
          product_collection'[i].sold_quantity >= 0
     /\ \A i \in 1..Len(product_collection) :
          product_collection'[i].sold_quantity
            >= product_collection[i].sold_quantity]_vars

\* the quantity that the successful buy or sell of handler p, if it has
\* returned one, added to record d
Applied(p, d) ==
  IF res[p].op \in {"buy", "sell"} /\ res[p].outcome = "ok"
       /\ res[p].product[1].id = d.id
       /\ res[p].product[1].unit_id = d.unit_id
    THEN IF res[p].op = "buy"
           THEN res[p].request.purchased_quantity
           ELSE - res[p].request.quantity_to_sell
    ELSE 0

\* C25: in every interleaving of the buys and sells of two handlers, the
\* quantity of every record is its quantity at startup plus the quantities
\* of the successful buys and minus those of the successful sells applied
\* to it.
C25_QuantityConserved ==
  \A i \in 1..Len(product_collection) :
    product_collection[i].quantity =
      seeded[i].quantity
        + SumSeq([p \in 1..Cardinality(Procs) |-> Applied(p, product_collection[i])])

\* a buy and a sell of different quantities were both applied to one record
C25_Witness ==
  \E i \in 1..Len(product_collection) :
    /\ res[1].op = "buy"
    /\ res[2].op = "sell"
    /\ Applied(1, product_collection[i]) > 0
    /\ Applied(2, product_collection[i]) < 0
    /\ product_collection[i].quantity # seeded[i].quantity

\* the index of the record that the successful response of handler p
\* returned after its update
UpdatedBy(p) ==
  FirstIndex({i \in 1..Len(product_collection) :
                /\ product_collection[i].id = res'[p].product[1].id
                /\ product_collection[i].unit_id = res'[p].product[1].unit_id})

C27_BuyInCheckedUnit ==
  [][\A p \in Procs :
       (Returned(p, "buy") /\ res'[p].outcome = "ok") =>
         /\ pc[p] = "buy_update"
         /\ res'[p].product[1].unit_id = loc[p].unit_id
         /\ \A i \in 1..Len(product_collection) :
              product_collection'[i].quantity > product_collection[i].quantity =>
                product_collection[i].unit_id = loc[p].unit_id]_vars

\* the store holds records of two units, and a buy increased the record of
\* the second one
C27_Witness ==
  /\ Len(product_collection) = 2
  /\ product_collection[1].unit_id # product_collection[2].unit_id
  /\ product_collection[2].quantity > seeded[2].quantity
  /\ \E p \in Procs :
       /\ res[p].op = "buy"
       /\ res[p].outcome = "ok"
       /\ res[p].product[1].unit_id = product_collection[2].unit_id

\* C28: a sale posted to the sell route by a session whose unit is u changes
\* only a record whose unit_id is u, and a step of the route that is not its
\* repository update changes no record.
C28_SellRouteOwnUnit ==
  [][\A i \in 1..Len(product_collection) :
       product_collection'[i] # product_collection[i] =>
         \E p \in Procs :
           /\ pc[p] = "sell_update"
           /\ Returned(p, "sell")
           /\ res'[p].outcome = "ok"
           /\ res'[p].request.session_unit # None =>
                /\ product_collection[i].unit_id = res'[p].request.session_unit
                /\ product_collection'[i].unit_id = res'[p].request.session_unit]_vars

\* the store holds records of two units, and a session of the unit of the
\* second one sold from it
C28_Witness ==
  /\ Len(product_collection) = 2
  /\ product_collection[1].unit_id # product_collection[2].unit_id
  /\ product_collection[2].quantity < seeded[2].quantity
  /\ \E p \in Procs :
       /\ res[p].op = "sell"
       /\ res[p].outcome = "ok"
       /\ res[p].request.session_unit = product_collection[2].unit_id

\* C29: in every reachable state no two units have the same id, and no two
\* records of the product collection have the same id and the same unit_id.
C29_UniqueKeys ==
  /\ \A i, j \in 1..Len(unit_collection) :
       unit_collection[i].id = unit_collection[j].id => i = j
  /\ \A i, j \in 1..Len(product_collection) :
       (/\ product_collection[i].id = product_collection[j].id
        /\ product_collection[i].unit_id = product_collection[j].unit_id) => i = j

\* an insert of a product id into the unit that already holds it was refused
C29_Witness ==
  \E p \in Procs :
    /\ res[p].op = "insert"
    /\ res[p].outcome = "DuplicateKeyError"
    /\ \E i \in 1..Len(product_collection) :
         /\ product_collection[i].id = res[p].request.product.id
         /\ product_collection[i].unit_id = res[p].request.unit_id

\* C23: a view wrapped by required_role(min_role) runs only for a session
\* whose role is at the position of min_role in the hierarchy or after it;
\* a session without a role is redirected to login and a role before
\* min_role to the missing-permissions page.
C23_RequiredRole ==
  [][\A p \in Procs :
       Returned(p, "view") =>
         LET s == res'[p].request.session
             min_role == res'[p].request.min_role
         IN /\ res'[p].outcome = "view" =>
                 /\ s.role \in {"employee", "supervisor", "admin"}
                 /\ index(s.role) >= index(min_role)
            /\ s.role = None => res'[p].outcome = "redirect_login"
            /\ (s.role # None /\ index(s.role) < index(min_role)) =>
                 res'[p].outcome = "redirect_missing_permissions"]_vars

\* an employee was sent to the missing-permissions page by a view for
\* supervisors, and a supervisor ran that view
C23_Witness ==
  /\ res[1].op = "view"
  /\ res[1].request.session.role = "employee"
  /\ res[1].request.min_role = "supervisor"
  /\ res[1].outcome = "redirect_missing_permissions"
  /\ res[2].op = "view"
  /\ res[2].request.session.role = "supervisor"
  /\ res[2].request.min_role = "supervisor"
  /\ res[2].outcome = "view"

\* C24: delete_employee_by_id raises UnitNotFoundByIdError for a unit_id
\* that names no unit and UserNotFoundByIdError when no employee has the id
\* (in the unit, when one is given); when it raises, the user collection is
\* unchanged, and when it succeeds exactly that employee is gone.
C24_DeleteEmployee ==
  [][\A p \in Procs :
       Returned(p, "delete_employee") =>
         LET r == res'[p].request
             no_unit == r.unit_id # None /\ get_unit_by_id(unit_collection, r.unit_id) = <<>>
             found == {k \in 1..Len(user_collection) :
                         delete_filter(user_collection[k], r.employee_id, r.unit_id)}
         IN /\ no_unit => res'[p].outcome = "UnitNotFoundByIdError"
            /\ (~no_unit /\ found = {}) => res'[p].outcome = "UserNotFoundByIdError"
            /\ res'[p].outcome # "ok" => user_collection' = user_collection
            /\ res'[p].outcome = "ok" =>
                 \E k \in found : user_collection' = delete_one(user_collection, k)]_vars

\* C30: a login whose username, password and unit match a stored user, the
\* admin with its empty unit included, succeeds and leaves the id, the
\* unit_id and the role of that user in the session; a logout leaves none
\* of them.
C30_LoginLogout ==
  [][\A p \in Procs :
       /\ Returned(p, "login") =>
            LET r == res'[p].request
                i == find_user(user_collection, r.username, r.password, r.unit_id)
            IN i # 0 =>
                 /\ res'[p].outcome = "ok"
                 /\ session'[p] = Session(user_collection[i].id,
                                          user_collection[i].unit_id,
                                          user_collection[i].role)
       /\ Returned(p, "logout") => session'[p] = NoSession]_vars

====
